---------------------------- MODULE Spec2Model ----------------------------
(***************************************************************************)
(* Model of prompt_toolkit/styles/style.py: the style-string interpreter   *)
(* (_colorformat, _parse_style_str), the merge of attribute layers         *)
(* (_merge_attrs) and the Style class (construction and                    *)
(* get_attrs_for_style_str).                                               *)
(*                                                                         *)
(* Python strings are modelled as sequences of one-character strings, so   *)
(* that slicing, splitting, prefix tests, lower-casing and sorting are     *)
(* computed the way the code computes them.  A value that may be None is   *)
(* modelled as a sequence of length 0 (None) or 1 (the value).             *)
(***************************************************************************)
EXTENDS Integers, Sequences, FiniteSets, TLC

VARIABLES pc, style_rules, init_exc, class_names_and_attrs,
          q_style_str, q_default, q_exc, q_matched, q_list_of_attrs, q_result,
          cf_text, cf_out,
          ps_style_str, ps_out,
          ma_list, ma_out

vars == <<pc, style_rules, init_exc, class_names_and_attrs,
          q_style_str, q_default, q_exc, q_matched, q_list_of_attrs, q_result,
          cf_text, cf_out, ps_style_str, ps_out, ma_list, ma_out>>

styleVars == <<pc, style_rules, init_exc, class_names_and_attrs,
               q_style_str, q_default, q_exc, q_matched, q_list_of_attrs, q_result>>
cfVars == <<cf_text, cf_out>>
psVars == <<ps_style_str, ps_out>>
maVars == <<ma_list, ma_out>>

-----------------------------------------------------------------------------
(* Python values *)

None == <<>>
Some(v) == <<v>>

\* The characters that occur in the modelled strings, in code-point order
\* (the order sorted() compares them by).
Ascii == << "\t", " ", "#", ",",
            "0", "1", "2", "3", "4", "5", "6", "7", "8", "9", ":",
            "A", "B", "C", "D", "E", "F", "G", "H", "I", "J", "K", "L", "M",
            "N", "O", "P", "Q", "R", "S", "T", "U", "V", "W", "X", "Y", "Z",
            "[", "]",
            "a", "b", "c", "d", "e", "f", "g", "h", "i", "j", "k", "l", "m",
            "n", "o", "p", "q", "r", "s", "t", "u", "v", "w", "x", "y", "z" >>

Ord(c) == CHOOSE i \in 1..Len(Ascii) : Ascii[i] = c

UpperCase == << "A", "B", "C", "D", "E", "F", "G", "H", "I", "J", "K", "L", "M",
                "N", "O", "P", "Q", "R", "S", "T", "U", "V", "W", "X", "Y", "Z" >>
LowerCase == << "a", "b", "c", "d", "e", "f", "g", "h", "i", "j", "k", "l", "m",
                "n", "o", "p", "q", "r", "s", "t", "u", "v", "w", "x", "y", "z" >>

\* str.lower()
lower(s) ==
    [i \in 1..Len(s) |->
        IF \E k \in 1..Len(UpperCase) : UpperCase[k] = s[i]
        THEN LowerCase[CHOOSE k \in 1..Len(UpperCase) : UpperCase[k] = s[i]]
        ELSE s[i]]

IsSpace(c) == c \in {" ", "\t"}

\* str.split(): the maximal runs of non-whitespace characters, in order.
RECURSIVE split_from(_, _, _, _)
split_from(s, i, cur, parts) ==
    IF i > Len(s)
    THEN IF cur = <<>> THEN parts ELSE Append(parts, cur)
    ELSE IF IsSpace(s[i])
         THEN split_from(s, i + 1, <<>>,
                         IF cur = <<>> THEN parts ELSE Append(parts, cur))
         ELSE split_from(s, i + 1, Append(cur, s[i]), parts)

split(s) == split_from(s, 1, <<>>, <<>>)

\* str.split(','): the pieces between the commas, empty pieces included;
\* the empty string gives one empty piece.
RECURSIVE split_comma_from(_, _, _, _)
split_comma_from(s, i, cur, parts) ==
    IF i > Len(s)
    THEN Append(parts, cur)
    ELSE IF s[i] = ","
         THEN split_comma_from(s, i + 1, <<>>, Append(parts, cur))
         ELSE split_comma_from(s, i + 1, Append(cur, s[i]), parts)

split_comma(s) == split_comma_from(s, 1, <<>>, <<>>)

startswith(s, p) == Len(s) >= Len(p) /\ SubSeq(s, 1, Len(p)) = p

endswith(s, p) == Len(s) >= Len(p) /\ SubSeq(s, Len(s) - Len(p) + 1, Len(s)) = p

\* The operator `sub in s' on strings: sub occurs as a substring of s.
contains(s, sub) ==
    \E i \in 1..(Len(s) - Len(sub) + 1) : SubSeq(s, i, i + Len(sub) - 1) = sub

\* s[n:]
slice_from(s, n) == SubSeq(s, n + 1, Len(s))

\* a < b on strings: lexicographic by code point.
RECURSIVE str_less(_, _)
str_less(a, b) ==
    IF b = <<>> THEN FALSE
    ELSE IF a = <<>> THEN TRUE
    ELSE IF Ord(Head(a)) < Ord(Head(b)) THEN TRUE
    ELSE IF Ord(Head(a)) > Ord(Head(b)) THEN FALSE
    ELSE str_less(Tail(a), Tail(b))

\* sorted(): a stable insertion of each element after the elements not
\* greater than it.
RECURSIVE insert_sorted(_, _)
insert_sorted(x, seq) ==
    IF seq = <<>> THEN <<x>>
    ELSE IF str_less(x, Head(seq)) THEN <<x>> \o seq
    ELSE <<Head(seq)>> \o insert_sorted(x, Tail(seq))

RECURSIVE sorted(_)
sorted(seq) ==
    IF seq = <<>> THEN <<>>
    ELSE insert_sorted(seq[Len(seq)], sorted(SubSeq(seq, 1, Len(seq) - 1)))

-----------------------------------------------------------------------------
(* String literals of the source *)

s_noinherit == << "n", "o", "i", "n", "h", "e", "r", "i", "t" >>

s_bold == << "b", "o", "l", "d" >>

s_nobold == << "n", "o", "b", "o", "l", "d" >>

s_italic == << "i", "t", "a", "l", "i", "c" >>

s_noitalic == << "n", "o", "i", "t", "a", "l", "i", "c" >>

s_underline == << "u", "n", "d", "e", "r", "l", "i", "n", "e" >>

s_nounderline == << "n", "o", "u", "n", "d", "e", "r", "l", "i", "n", "e" >>

s_blink == << "b", "l", "i", "n", "k" >>

s_noblink == << "n", "o", "b", "l", "i", "n", "k" >>

s_reverse == << "r", "e", "v", "e", "r", "s", "e" >>

s_noreverse == << "n", "o", "r", "e", "v", "e", "r", "s", "e" >>

s_roman == << "r", "o", "m", "a", "n" >>

s_sans == << "s", "a", "n", "s" >>

s_mono == << "m", "o", "n", "o" >>

s_border == << "b", "o", "r", "d", "e", "r", ":" >>

s_class == << "c", "l", "a", "s", "s", ":" >>

s_bg == << "b", "g", ":" >>

s_lbracket == << "[" >>

s_rbracket == << "]" >>

s_hash == << "#" >>

s_empty == <<>>

s_default == << "d", "e", "f", "a", "u", "l", "t" >>

\* The palette of named colors (styles/base.py); the names are those of the
\* 16-color palette, of which the model keeps two.
ANSI_COLOR_NAMES == { << "a", "n", "s", "i", "r", "e", "d" >>, << "a", "n", "s", "i", "b", "l", "u", "e" >> }

-----------------------------------------------------------------------------
(* _colorformat *)

\* text[a:b] with Python's clamping of b to the length.
slice(s, a, b) == SubSeq(s, a + 1, IF b < Len(s) THEN b ELSE Len(s))

\* The outcome of a call: exc is "" with the returned value in val, or the
\* name of the exception raised, with no value.
Return(v) == [exc |-> "", val |-> Some(v)]

Raise(e) == [exc |-> e, val |-> None]

\* _colorformat without the final raise on the `#' branch: a remainder of
\* another length is returned as it is.
_colorformat_lenient(text) ==
    IF slice(text, 0, 1) = s_hash
    THEN LET col == slice_from(text, 1) IN
         IF col \in ANSI_COLOR_NAMES THEN Return(col)
         ELSE IF Len(col) = 6 THEN Return(col)
         ELSE IF Len(col) = 3
              THEN Return(<<col[1], col[1]>> \o <<col[2], col[2]>> \o <<col[3], col[3]>>)
         ELSE Return(col)
    ELSE IF text \in {s_empty, s_default} THEN Return(text)
    ELSE Raise("ValueError")

_colorformat(text) ==
    IF slice(text, 0, 1) = s_hash
    THEN LET col == slice_from(text, 1) IN
         IF col \in ANSI_COLOR_NAMES THEN Return(col)
         ELSE IF Len(col) = 6 THEN Return(col)
         ELSE IF Len(col) = 3
              THEN Return(<<col[1], col[1]>> \o <<col[2], col[2]>> \o <<col[3], col[3]>>)
         ELSE Raise("ValueError")
    ELSE IF text \in {s_empty, s_default} THEN Return(text)
    ELSE Raise("ValueError")

-----------------------------------------------------------------------------
(* Attrs *)

Attrs(color, bgcolor, bold, underline, italic, blink, reverse) ==
    [color |-> color, bgcolor |-> bgcolor, bold |-> bold, underline |-> underline,
     italic |-> italic, blink |-> blink, reverse |-> reverse]

Fields == {"color", "bgcolor", "bold", "underline", "italic", "blink", "reverse"}

ColorFields == {"color", "bgcolor"}

\* styles/base.py: the attributes with nothing set, every field concrete.
DEFAULT_ATTRS ==
    Attrs(Some(s_empty), Some(s_empty), Some(FALSE), Some(FALSE), Some(FALSE),
          Some(FALSE), Some(FALSE))

_EMPTY_ATTRS == Attrs(None, None, None, None, None, None, None)

-----------------------------------------------------------------------------
(* _parse_style_str *)

\* The body of the loop `for part in style_str.split()', from part i on, with
\* the attrs and class_names built so far.  A ValueError of _colorformat
\* leaves the loop and the function.
RECURSIVE parse_parts(_, _, _, _)
parse_parts(parts, i, attrs, class_names) ==
    IF i > Len(parts) THEN Return(<<attrs, class_names>>)
    ELSE LET part == parts[i] IN
         IF part = s_noinherit
         THEN parse_parts(parts, i + 1, attrs, class_names)
         ELSE IF part = s_bold
         THEN parse_parts(parts, i + 1, [attrs EXCEPT !.bold = Some(TRUE)], class_names)
         ELSE IF part = s_nobold
         THEN parse_parts(parts, i + 1, [attrs EXCEPT !.bold = Some(FALSE)], class_names)
         ELSE IF part = s_italic
         THEN parse_parts(parts, i + 1, [attrs EXCEPT !.italic = Some(TRUE)], class_names)
         ELSE IF part = s_noitalic
         THEN parse_parts(parts, i + 1, [attrs EXCEPT !.italic = Some(FALSE)], class_names)
         ELSE IF part = s_underline
         THEN parse_parts(parts, i + 1, [attrs EXCEPT !.underline = Some(TRUE)], class_names)
         ELSE IF part = s_nounderline
         THEN parse_parts(parts, i + 1, [attrs EXCEPT !.underline = Some(FALSE)], class_names)
         ELSE IF part = s_blink
         THEN parse_parts(parts, i + 1, [attrs EXCEPT !.blink = Some(TRUE)], class_names)
         ELSE IF part = s_noblink
         THEN parse_parts(parts, i + 1, [attrs EXCEPT !.blink = Some(FALSE)], class_names)
         ELSE IF part = s_reverse
         THEN parse_parts(parts, i + 1, [attrs EXCEPT !.reverse = Some(TRUE)], class_names)
         ELSE IF part = s_noreverse
         THEN parse_parts(parts, i + 1, [attrs EXCEPT !.reverse = Some(FALSE)], class_names)
         ELSE IF part \in {s_roman, s_sans, s_mono}
         THEN parse_parts(parts, i + 1, attrs, class_names)
         ELSE IF startswith(part, s_border)
         THEN parse_parts(parts, i + 1, attrs, class_names)
         ELSE IF startswith(part, s_class)
         THEN parse_parts(parts, i + 1, attrs,
                          class_names \o split_comma(lower(slice_from(part, 6))))
         ELSE IF startswith(part, s_lbracket) /\ endswith(part, s_rbracket)
         THEN parse_parts(parts, i + 1, attrs, class_names)
         ELSE IF startswith(part, s_bg)
         THEN LET c == _colorformat(slice_from(part, 3)) IN
              IF c.exc # "" THEN Raise(c.exc)
              ELSE parse_parts(parts, i + 1, [attrs EXCEPT !.bgcolor = c.val], class_names)
         ELSE LET c == _colorformat(part) IN
              IF c.exc # "" THEN Raise(c.exc)
              ELSE parse_parts(parts, i + 1, [attrs EXCEPT !.color = c.val], class_names)

\* The attrs the loop starts from: `'noinherit' in style_str' is the
\* substring test of a string in a string.
start_attrs(style_str) ==
    IF contains(style_str, s_noinherit) THEN DEFAULT_ATTRS ELSE _EMPTY_ATTRS

_parse_style_str(style_str) ==
    parse_parts(split(style_str), 1, start_attrs(style_str), <<>>)

-----------------------------------------------------------------------------
(* _merge_attrs *)

\* _or without the reversal (`for v in values:'): the first value that is
\* not None, starting at the front.
RECURSIVE _or_from_front(_)
_or_from_front(values) ==
    IF values = <<>> THEN None
    ELSE IF Head(values) # None THEN Head(values)
    ELSE _or_from_front(Tail(values))

\* _or(*values): the first value that is not None, starting at the end; None
\* (the function falls off its end) when every value is None.
RECURSIVE _or(_)
_or(values) ==
    IF values = <<>> THEN None
    ELSE IF values[Len(values)] # None THEN values[Len(values)]
    ELSE _or(SubSeq(values, 1, Len(values) - 1))

\* [a.f for a in list_of_attrs]
column(list_of_attrs, f) == [i \in 1..Len(list_of_attrs) |-> list_of_attrs[i][f]]

\* _merge_attrs without the '' and False that _or is given first.
_merge_attrs_no_fallback(list_of_attrs) ==
    Attrs(_or(column(list_of_attrs, "color")),
          _or(column(list_of_attrs, "bgcolor")),
          _or(column(list_of_attrs, "bold")),
          _or(column(list_of_attrs, "underline")),
          _or(column(list_of_attrs, "italic")),
          _or(column(list_of_attrs, "blink")),
          _or(column(list_of_attrs, "reverse")))

_merge_attrs(list_of_attrs) ==
    Attrs(_or(<<Some(s_empty)>> \o column(list_of_attrs, "color")),
          _or(<<Some(s_empty)>> \o column(list_of_attrs, "bgcolor")),
          _or(<<Some(FALSE)>> \o column(list_of_attrs, "bold")),
          _or(<<Some(FALSE)>> \o column(list_of_attrs, "underline")),
          _or(<<Some(FALSE)>> \o column(list_of_attrs, "italic")),
          _or(<<Some(FALSE)>> \o column(list_of_attrs, "blink")),
          _or(<<Some(FALSE)>> \o column(list_of_attrs, "reverse")))

-----------------------------------------------------------------------------
(* Style *)

\* The loop of Style.__init__ from rule i on, with the list built so far.  An
\* exception of _parse_style_str, or the failing assert, leaves the
\* constructor.
RECURSIVE init_rules(_, _, _)
init_rules(rules, i, acc) ==
    IF i > Len(rules) THEN Return(acc)
    ELSE LET class_names == sorted(split(lower(rules[i][1])))
             parsed == _parse_style_str(rules[i][2])
         IN IF parsed.exc # "" THEN Raise(parsed.exc)
            ELSE IF parsed.val[1][2] # <<>> THEN Raise("AssertionError")
            ELSE init_rules(rules, i + 1, Append(acc, <<class_names, parsed.val[1][1]>>))

\* Style.__init__ without `assert not class_names_2'.
RECURSIVE init_rules_no_assert(_, _, _)
init_rules_no_assert(rules, i, acc) ==
    IF i > Len(rules) THEN Return(acc)
    ELSE LET class_names == sorted(split(lower(rules[i][1])))
             parsed == _parse_style_str(rules[i][2])
         IN IF parsed.exc # "" THEN Raise(parsed.exc)
            ELSE init_rules_no_assert(rules, i + 1,
                                      Append(acc, <<class_names, parsed.val[1][1]>>))

Style__init__no_assert(rules) == init_rules_no_assert(rules, 1, <<>>)

\* Style.__init__(style_rules): the value of self.class_names_and_attrs, or
\* the exception.
Style__init__(rules) == init_rules(rules, 1, <<>>)

\* The elements of seq at the positions of I, in the order of seq.
RECURSIVE pick(_, _, _)
pick(seq, I, i) ==
    IF i > Len(seq) THEN <<>>
    ELSE (IF i \in I THEN <<seq[i]>> ELSE <<>>) \o pick(seq, I, i + 1)

\* set(itertools.combinations(seq, count)): the subsequences of count
\* positions, each in the order of seq.
combinations(seq, count) ==
    { pick(seq, I, 1) : I \in { J \in SUBSET (1..Len(seq)) : Cardinality(J) = count } }

\* The set `combos' of get_attrs_for_style_str.
build_combos(class_names) ==
    { <<s_empty>> } \cup
    UNION { combinations(class_names, count) : count \in 1..Len(class_names) }

\* The positions, in order, of the stored rules whose class names are in
\* combos.
RECURSIVE matching(_, _, _)
matching(rules, combos, i) ==
    IF i > Len(rules) THEN <<>>
    ELSE (IF rules[i][1] \in combos THEN <<i>> ELSE <<>>) \o matching(rules, combos, i + 1)

\* list_of_attrs with each matching rule inserted right after the default
\* (list_of_attrs.insert(1, attr)): the rules end up newest first.
build_list_of_attrs_newest_first(rules, matched, default, inline_attrs) ==
    <<default>> \o
    [k \in 1..Len(matched) |-> rules[matched[Len(matched) + 1 - k]][2]] \o
    <<inline_attrs>>

\* list_of_attrs with the inline style added before the loop over the rules.
build_list_of_attrs_inline_first(rules, matched, default, inline_attrs) ==
    <<default, inline_attrs>> \o [k \in 1..Len(matched) |-> rules[matched[k]][2]]

\* list_of_attrs just before the merge.
build_list_of_attrs(rules, matched, default, inline_attrs) ==
    <<default>> \o [k \in 1..Len(matched) |-> rules[matched[k]][2]] \o <<inline_attrs>>

-----------------------------------------------------------------------------
(* Inputs *)

MaxRules == 2

\* The (classnames, style) pairs a caller builds its rule list from:
\*   ('a', 'bold')
\*   ('a', 'nobold')
\*   ('b A', 'underline')
\*   ('', 'reverse')
\*   ('a', 'class:b bold')
\*   ('c', 'noinherit #f80')
\*   ('b', '#12')
RuleInputs ==
    { <<<<"a">>, <<"b", "o", "l", "d">>>>,
      <<<<"a">>, <<"n", "o", "b", "o", "l", "d">>>>,
      <<<<"b", " ", "A">>, <<"u", "n", "d", "e", "r", "l", "i", "n", "e">>>>,
      <<<<>>, <<"r", "e", "v", "e", "r", "s", "e">>>>,
      <<<<"a">>, <<"c", "l", "a", "s", "s", ":", "b", " ", "b", "o", "l", "d">>>>,
      <<<<"c">>, <<"n", "o", "i", "n", "h", "e", "r", "i", "t", " ", "#", "f", "8", "0">>>>,
      <<<<"b">>, <<"#", "1", "2">>>> }

\* The style strings get_attrs_for_style_str is queried with:
\*   ''
\*   'class:a'
\*   'class:a,b'
\*   'class:b,a'
\*   'class:a,b,c'
\*   'class:c,b,a'
\*   'class:A nobold'
\*   'class:a #0f0 bg:'
\*   'noinherit class:c'
\*   '#12'
StyleStrInputs ==
    { <<>>,
      <<"c", "l", "a", "s", "s", ":", "a">>,
      <<"c", "l", "a", "s", "s", ":", "a", ",", "b">>,
      <<"c", "l", "a", "s", "s", ":", "b", ",", "a">>,
      <<"c", "l", "a", "s", "s", ":", "a", ",", "b", ",", "c">>,
      <<"c", "l", "a", "s", "s", ":", "c", ",", "b", ",", "a">>,
      <<"c", "l", "a", "s", "s", ":", "A", " ", "n", "o", "b", "o", "l", "d">>,
      <<"c", "l", "a", "s", "s", ":", "a", " ", "#", "0", "f", "0", " ", "b", "g", ":">>,
      <<"n", "o", "i", "n", "h", "e", "r", "i", "t", " ", "c", "l", "a", "s", "s", ":", "c">>,
      <<"#", "1", "2">> }

\* The values of `default': DEFAULT_ATTRS, and attributes with some fields set
\* and the others unset.
DefaultInputs ==
    { DEFAULT_ATTRS,
      Attrs(Some(<<"0", "0", "0", "0", "f", "f">>), None, Some(TRUE), None, None,
            Some(TRUE), Some(TRUE)) }

\* The rule lists of at most MaxRules rules.
RuleLists == UNION { [1..n -> RuleInputs] : n \in 0..MaxRules }

\* list(style_dict.items()) of the dictionaries over RuleInputs: the keys
\* are pairwise different.
DictItemLists ==
    { l \in RuleLists : \A i, j \in 1..Len(l) : i # j => l[i][1] # l[j][1] }

-----------------------------------------------------------------------------
(* The Style object: construction and queries *)

Idle == [exc |-> "idle", val |-> None]

\* No Style object yet, no query made.
InitStyle ==
    /\ pc = "new"
    /\ style_rules = <<>>
    /\ init_exc = ""
    /\ class_names_and_attrs = <<>>
    /\ q_style_str = <<>>
    /\ q_default = DEFAULT_ATTRS
    /\ q_exc = "idle"
    /\ q_matched = <<>>
    /\ q_list_of_attrs = <<>>
    /\ q_result = None

\* No call of _colorformat, _parse_style_str, _merge_attrs on its own.
NoColorCall == cf_text = <<>> /\ cf_out = Idle

NoParseCall == ps_style_str = <<>> /\ ps_out = Idle

NoMergeCall == ma_list = <<>> /\ ma_out = None

Init == InitStyle /\ NoColorCall /\ NoParseCall /\ NoMergeCall

\* Style(rules): on an exception there is no object.
Construct(rules) ==
    /\ pc = "new"
    /\ style_rules' = rules
    /\ LET r == Style__init__(rules) IN
       IF r.exc = ""
       THEN /\ pc' = "ready"
            /\ init_exc' = ""
            /\ class_names_and_attrs' = r.val[1]
       ELSE /\ pc' = "failed"
            /\ init_exc' = r.exc
            /\ class_names_and_attrs' = <<>>
    /\ UNCHANGED <<q_style_str, q_default, q_exc, q_matched, q_list_of_attrs, q_result>>
    /\ UNCHANGED <<cfVars, psVars, maVars>>

\* Style.from_dict(style_dict)
from_dict(items) == Construct(items)

\* get_attrs_for_style_str that filters the stored list in place: the rules
\* that apply are what the object keeps.
get_attrs_for_style_str_filtering(style_str, default) ==
    /\ pc = "ready"
    /\ q_style_str' = style_str
    /\ q_default' = default
    /\ LET parsed == _parse_style_str(style_str) IN
       IF parsed.exc # ""
       THEN /\ q_exc' = parsed.exc
            /\ q_matched' = <<>>
            /\ q_list_of_attrs' = <<>>
            /\ q_result' = None
            /\ class_names_and_attrs' = class_names_and_attrs
       ELSE LET inline_attrs == parsed.val[1][1]
                class_names == parsed.val[1][2]
                combos == build_combos(class_names)
                matched == matching(class_names_and_attrs, combos, 1)
                list_of_attrs == build_list_of_attrs(class_names_and_attrs, matched,
                                                     default, inline_attrs)
            IN /\ q_exc' = ""
               /\ q_matched' = matched
               /\ q_list_of_attrs' = list_of_attrs
               /\ q_result' = Some(_merge_attrs(list_of_attrs))
               /\ class_names_and_attrs' =
                      [k \in 1..Len(matched) |-> class_names_and_attrs[matched[k]]]
    /\ UNCHANGED <<pc, style_rules, init_exc>>
    /\ UNCHANGED <<cfVars, psVars, maVars>>

\* style.get_attrs_for_style_str(style_str, default); the locals matched
\* (the rules appended) and list_of_attrs are kept for observation.
get_attrs_for_style_str(style_str, default) ==
    /\ pc = "ready"
    /\ q_style_str' = style_str
    /\ q_default' = default
    /\ LET parsed == _parse_style_str(style_str) IN
       IF parsed.exc # ""
       THEN /\ q_exc' = parsed.exc
            /\ q_matched' = <<>>
            /\ q_list_of_attrs' = <<>>
            /\ q_result' = None
       ELSE LET inline_attrs == parsed.val[1][1]
                class_names == parsed.val[1][2]
                combos == build_combos(class_names)
                matched == matching(class_names_and_attrs, combos, 1)
                list_of_attrs == build_list_of_attrs(class_names_and_attrs, matched,
                                                     default, inline_attrs)
            IN /\ q_exc' = ""
               /\ q_matched' = matched
               /\ q_list_of_attrs' = list_of_attrs
               /\ q_result' = Some(_merge_attrs(list_of_attrs))
    /\ UNCHANGED <<pc, style_rules, init_exc, class_names_and_attrs>>
    /\ UNCHANGED <<cfVars, psVars, maVars>>

Next ==
    \/ pc = "new" /\ \E rules \in RuleLists : Construct(rules)
    \/ pc = "new" /\ \E items \in DictItemLists : from_dict(items)
    \/ \E style_str \in StyleStrInputs, default \in DefaultInputs :
          get_attrs_for_style_str(style_str, default)

Spec == Init /\ [][Next]_vars

-----------------------------------------------------------------------------
(* Calls of the module's functions on their own *)

MaxColorLen == 7

ColorChars == {"#", "f", "8"}

\* The texts _colorformat is called with: every string of at most
\* MaxColorLen characters of ColorChars, and
\*   'default', '#default', '#ansired', 'ansired', '#ansiblue', 'red', '#12', '#1234567',
\*   '#f80', '#ff8800'
ColorTextInputs ==
    UNION { [1..n -> ColorChars] : n \in 0..MaxColorLen } \cup
    { <<"d", "e", "f", "a", "u", "l", "t">>,
      <<"#", "d", "e", "f", "a", "u", "l", "t">>,
      <<"#", "a", "n", "s", "i", "r", "e", "d">>,
      <<"a", "n", "s", "i", "r", "e", "d">>,
      <<"#", "a", "n", "s", "i", "b", "l", "u", "e">>,
      <<"r", "e", "d">>,
      <<"#", "1", "2">>,
      <<"#", "1", "2", "3", "4", "5", "6", "7">>,
      <<"#", "f", "8", "0">>,
      <<"#", "f", "f", "8", "8", "0", "0">> }

InitColor ==
    /\ InitStyle /\ NoParseCall /\ NoMergeCall
    /\ cf_text \in ColorTextInputs
    /\ cf_out = Idle

\* _colorformat(cf_text)
Call_colorformat ==
    /\ cf_out = Idle
    /\ cf_out' = _colorformat(cf_text)
    /\ UNCHANGED <<cf_text, styleVars, psVars, maVars>>

NextColor == Call_colorformat

SpecColor == InitColor /\ [][NextColor]_vars

MaxTokens == 2

\* The tokens the style strings are made of:
\*   'noinherit'
\*   'bold'
\*   'nobold'
\*   'italic'
\*   'noitalic'
\*   'underline'
\*   'nounderline'
\*   'blink'
\*   'noblink'
\*   'reverse'
\*   'noreverse'
\*   'roman'
\*   'sans'
\*   'mono'
\*   'border:#f80'
\*   'border:noinherit'
\*   'class:a,B'
\*   'class:noinherit'
\*   'class:'
\*   '[x]'
\*   '[noinherit]'
\*   'bg:#f80'
\*   'bg:'
\*   '#0f0'
\*   '#ansired'
\*   'red'
\*   'bg:#12'
TokenInputs ==
    { <<"n", "o", "i", "n", "h", "e", "r", "i", "t">>,
      <<"b", "o", "l", "d">>,
      <<"n", "o", "b", "o", "l", "d">>,
      <<"i", "t", "a", "l", "i", "c">>,
      <<"n", "o", "i", "t", "a", "l", "i", "c">>,
      <<"u", "n", "d", "e", "r", "l", "i", "n", "e">>,
      <<"n", "o", "u", "n", "d", "e", "r", "l", "i", "n", "e">>,
      <<"b", "l", "i", "n", "k">>,
      <<"n", "o", "b", "l", "i", "n", "k">>,
      <<"r", "e", "v", "e", "r", "s", "e">>,
      <<"n", "o", "r", "e", "v", "e", "r", "s", "e">>,
      <<"r", "o", "m", "a", "n">>,
      <<"s", "a", "n", "s">>,
      <<"m", "o", "n", "o">>,
      <<"b", "o", "r", "d", "e", "r", ":", "#", "f", "8", "0">>,
      <<"b", "o", "r", "d", "e", "r", ":", "n", "o", "i", "n", "h", "e", "r", "i", "t">>,
      <<"c", "l", "a", "s", "s", ":", "a", ",", "B">>,
      <<"c", "l", "a", "s", "s", ":", "n", "o", "i", "n", "h", "e", "r", "i", "t">>,
      <<"c", "l", "a", "s", "s", ":">>,
      <<"[", "x", "]">>,
      <<"[", "n", "o", "i", "n", "h", "e", "r", "i", "t", "]">>,
      <<"b", "g", ":", "#", "f", "8", "0">>,
      <<"b", "g", ":">>,
      <<"#", "0", "f", "0">>,
      <<"#", "a", "n", "s", "i", "r", "e", "d">>,
      <<"r", "e", "d">>,
      <<"b", "g", ":", "#", "1", "2">> }

\* The separators between, before and after the tokens.
SeparatorInputs == { <<" ">>, <<"\t", " ">> }

RECURSIVE join(_, _)
join(tokens, sep) ==
    IF tokens = <<>> THEN <<>>
    ELSE IF Len(tokens) = 1 THEN tokens[1]
    ELSE tokens[1] \o sep \o join(Tail(tokens), sep)

\* The style strings _parse_style_str is called with: at most MaxTokens
\* tokens joined by a separator, and the same with the separator around it.
StyleStrCallInputs ==
    LET lists == UNION { [1..n -> TokenInputs] : n \in 0..MaxTokens }
    IN { join(l, <<" ">>) : l \in lists } \cup
       { <<"\t", " ">> \o join(l, <<"\t", " ">>) \o <<" ">> : l \in lists }

InitParse ==
    /\ InitStyle /\ NoColorCall /\ NoMergeCall
    /\ ps_style_str \in StyleStrCallInputs
    /\ ps_out = Idle

\* _parse_style_str(ps_style_str)
Call_parse_style_str ==
    /\ ps_out = Idle
    /\ ps_out' = _parse_style_str(ps_style_str)
    /\ UNCHANGED <<ps_style_str, styleVars, cfVars, maVars>>

NextParse == Call_parse_style_str

SpecParse == InitParse /\ [][NextParse]_vars

MaxLayers == 3

\* The Attrs the merged lists are made of: every field takes each of unset,
\* false or empty, and true or a color in some element.
AttrsInputs ==
    { _EMPTY_ATTRS,
      DEFAULT_ATTRS,
      Attrs(Some(<<"f", "f", "0", "0", "0", "0">>), None, Some(TRUE), None, Some(FALSE),
            None, Some(TRUE)),
      Attrs(None, Some(<<"a", "n", "s", "i", "r", "e", "d">>), None, Some(TRUE), Some(TRUE),
            Some(FALSE), None),
      Attrs(Some(s_empty), Some(<<"0", "0", "f", "f", "0", "0">>), Some(FALSE), Some(FALSE),
            None, Some(TRUE), Some(FALSE)) }

AttrsLists == UNION { [1..n -> AttrsInputs] : n \in 0..MaxLayers }

InitMerge ==
    /\ InitStyle /\ NoColorCall /\ NoParseCall
    /\ ma_list \in AttrsLists
    /\ ma_out = None

\* _merge_attrs(ma_list)
Call_merge_attrs ==
    /\ ma_out = None
    /\ ma_out' = Some(_merge_attrs(ma_list))
    /\ UNCHANGED <<ma_list, styleVars, cfVars, psVars>>

NextMerge == Call_merge_attrs

SpecMerge == InitMerge /\ [][NextMerge]_vars

-----------------------------------------------------------------------------
(* Properties of Style *)

SetOf(seq) == { seq[i] : i \in 1..Len(seq) }

\* A query has returned.
Answered == pc = "ready" /\ q_exc = ""

\* The class names the `class:' tokens of a style string refer to.
ClassTokens(style_str) == { part \in SetOf(split(style_str)) : startswith(part, s_class) }

QueriedClassSet(style_str) ==
    UNION { SetOf(split_comma(lower(slice_from(part, 6)))) : part \in ClassTokens(style_str) }

\* The override the inline style string of the last query stands for.
InlineAttrs == _parse_style_str(q_style_str).val[1][1]

\* The override rule i of the supplied rule list stands for.
RuleAttrs(i) == _parse_style_str(style_rules[i][2]).val[1][1]

\* C1: after every answered query, a stored rule is among the rules merged
\* exactly when its set of class names is a subset of the set of class names
\* the query's `class:' tokens refer to, in whatever order the query lists them.
\* Stated for the rules that name at least one class; the rule that names
\* none is the subject of C2.
C1_SubsetMatching ==
    Answered =>
        \A i \in 1..Len(class_names_and_attrs) :
            class_names_and_attrs[i][1] # <<>> =>
            (i \in SetOf(q_matched)) <=>
            (SetOf(class_names_and_attrs[i][1]) \subseteq QueriedClassSet(q_style_str))

\* C2: after every answered query, every rule whose class-name string has no
\* class token (the empty or all-whitespace string) is among the rules merged.
C2_DefaultRuleMatches ==
    Answered =>
        \A i \in 1..Len(style_rules) :
            split(style_rules[i][1]) = <<>> => i \in SetOf(q_matched)

\* The value a field has when nothing sets it.
Unset(f) == IF f \in ColorFields THEN Some(s_empty) ELSE Some(FALSE)

\* C3: the stored rules are the supplied rules, one for one and in the
\* supplied order; and after every answered query, for every field that two
\* of the merged rules set and the inline style does not, the result has the
\* value of the last merged rule that sets it.
C3_LaterRuleWins ==
    /\ pc = "ready" =>
          /\ Len(class_names_and_attrs) = Len(style_rules)
          /\ \A i \in 1..Len(style_rules) :
                class_names_and_attrs[i] =
                    <<sorted(split(lower(style_rules[i][1]))), RuleAttrs(i)>>
    /\ Answered =>
          \A f \in Fields : \A j \in SetOf(q_matched) :
             ( /\ RuleAttrs(j)[f] # None
               /\ \E i \in SetOf(q_matched) : i < j /\ RuleAttrs(i)[f] # None
               /\ \A k \in SetOf(q_matched) : k > j => RuleAttrs(k)[f] = None
               /\ InlineAttrs[f] = None )
             => q_result[1][f] = RuleAttrs(j)[f]

\* Rules ('a', 'bold') then ('a', 'nobold'), queried with 'class:a': both are
\* merged and bold is false.
C3_Witness ==
    /\ Answered
    /\ style_rules = << <<<<"a">>, s_bold>>, <<<<"a">>, s_nobold>> >>
    /\ q_style_str = s_class \o <<"a">>
    /\ q_matched = <<1, 2>>
    /\ q_result[1].bold = Some(FALSE)

\* C4: after every answered query the inline override is the last element
\* merged, and every field the inline style string sets has exactly that
\* value in the result.
C4_InlineLast ==
    Answered =>
        /\ q_list_of_attrs[Len(q_list_of_attrs)] = InlineAttrs
        /\ \A f \in Fields : InlineAttrs[f] # None => q_result[1][f] = InlineAttrs[f]

\* 'class:A nobold' against a merged rule that sets bold: the result has
\* bold false.
C4_Witness ==
    /\ Answered
    /\ q_style_str = s_class \o <<"A", " ">> \o s_nobold
    /\ \E k \in SetOf(q_matched) : class_names_and_attrs[k][2].bold = Some(TRUE)
    /\ q_result[1].bold = Some(FALSE)

\* C5: after every answered query every field of the result is set: the
\* colors are strings and the others booleans, and a field that neither the
\* default nor a merged rule nor the inline style sets is '' or false.
C5_AllFieldsSet ==
    Answered =>
        \A f \in Fields :
            /\ q_result[1][f] # None
            /\ Len(q_result[1][f]) = 1
            /\ f \notin ColorFields => q_result[1][f][1] \in BOOLEAN
            /\ f \in ColorFields => q_result[1][f][1] \in Seq(SetOf(Ascii))
            /\ ( /\ q_default[f] = None
                 /\ \A k \in SetOf(q_matched) : RuleAttrs(k)[f] = None
                 /\ InlineAttrs[f] = None )
               => q_result[1][f] = Unset(f)

\* A default with unset fields, and a result where two of them came out as
\* '' and false.
C5_Witness ==
    /\ Answered
    /\ q_default.bgcolor = None
    /\ q_default.underline = None
    /\ q_result[1].bgcolor = Some(s_empty)
    /\ q_result[1].underline = Some(FALSE)

\* C6: once construction was attempted: if a rule's style string has a
\* `class:' token, construction failed and there is no rule list to query;
\* if none has, construction did not fail on the class check.
C6_ClassInRuleRejected ==
    pc # "new" =>
        /\ (\E i \in 1..Len(style_rules) : ClassTokens(style_rules[i][2]) # {})
              => pc = "failed" /\ class_names_and_attrs = <<>>
        /\ (\A i \in 1..Len(style_rules) : ClassTokens(style_rules[i][2]) = {})
              => init_exc # "AssertionError"

\* Construction failed on the class check of the second rule.
C6_Witness ==
    /\ pc = "failed"
    /\ init_exc = "AssertionError"
    /\ Len(style_rules) = 2
    /\ ClassTokens(style_rules[1][2]) = {}
    /\ ClassTokens(style_rules[2][2]) # {}

\* C8: no step of a constructed Style changes the stored rule list, and a
\* query repeated with the same style string and default has the same
\* outcome.
C8_Immutable ==
    [][ pc = "ready" =>
          /\ class_names_and_attrs' = class_names_and_attrs
          /\ (q_exc # "idle" /\ q_style_str' = q_style_str /\ q_default' = q_default)
                => (q_exc' = q_exc /\ q_result' = q_result) ]_vars

\* After an answered query that merged a rule, the stored list is what the
\* constructor computes from the supplied rules.
C8_Witness ==
    /\ Answered
    /\ q_matched # <<>>
    /\ Len(class_names_and_attrs) > Len(q_matched)
    /\ class_names_and_attrs = Style__init__(style_rules).val[1]

-----------------------------------------------------------------------------
(* Properties of _colorformat *)

\* Each character of col twice, in place.
Doubled(col) == [i \in 1..(2 * Len(col)) |-> col[(i + 1) \div 2]]

-----------------------------------------------------------------------------
(* Properties of _merge_attrs *)

\* C9: a call of _merge_attrs gives each field the value of the last element
\* of the list that sets it, and '' or false when no element does.
C9_MergeLastSet ==
    ma_out # None =>
        \A f \in Fields :
            LET setting == { i \in 1..Len(ma_list) : ma_list[i][f] # None } IN
            IF setting = {} THEN ma_out[1][f] = Unset(f)
            ELSE ma_out[1][f] =
                    ma_list[CHOOSE i \in setting : \A k \in setting : k <= i][f]

\* A list of three: bold true, false, unset gave false; color set, empty,
\* unset gave the empty color; blink unset, true, unset gave true.
C9_Witness ==
    /\ ma_out # None
    /\ Len(ma_list) = 3
    /\ ma_list[1].bold = Some(TRUE) /\ ma_list[2].bold = Some(FALSE)
    /\ ma_list[3].bold = None /\ ma_out[1].bold = Some(FALSE)
    /\ ma_list[1].color \notin {None, Some(s_empty)} /\ ma_list[2].color = Some(s_empty)
    /\ ma_list[3].color = None /\ ma_out[1].color = Some(s_empty)
    /\ ma_list[1].blink = None /\ ma_list[2].blink = Some(TRUE)
    /\ ma_list[3].blink = None /\ ma_out[1].blink = Some(TRUE)

-----------------------------------------------------------------------------
(* Properties of _parse_style_str *)

\* The tokens that are neither a color nor a background color.
IsKeyword(part) ==
    \/ part \in { s_noinherit, s_bold, s_nobold, s_italic, s_noitalic, s_underline,
                  s_nounderline, s_blink, s_noblink, s_reverse, s_noreverse,
                  s_roman, s_sans, s_mono }
    \/ startswith(part, s_border)
    \/ startswith(part, s_class)
    \/ startswith(part, s_lbracket) /\ endswith(part, s_rbracket)

\* A token of the style string sets field f.
TokenSets(style_str, f) ==
    LET parts == SetOf(split(style_str)) IN
    CASE f = "bold" -> s_bold \in parts \/ s_nobold \in parts
      [] f = "italic" -> s_italic \in parts \/ s_noitalic \in parts
      [] f = "underline" -> s_underline \in parts \/ s_nounderline \in parts
      [] f = "blink" -> s_blink \in parts \/ s_noblink \in parts
      [] f = "reverse" -> s_reverse \in parts \/ s_noreverse \in parts
      [] f = "bgcolor" -> \E part \in parts : ~IsKeyword(part) /\ startswith(part, s_bg)
      [] f = "color" -> \E part \in parts : ~IsKeyword(part) /\ ~startswith(part, s_bg)

\* C10: in the override a call of _parse_style_str returns, every field that
\* no token sets is false or empty when a token of the string is `noinherit',
\* and unset when no token of the string is `noinherit'.
C10_NoinheritToken ==
    (ps_out # Idle /\ ps_out.exc = "") =>
        \A f \in Fields :
            ~TokenSets(ps_style_str, f) =>
                ps_out.val[1][1][f] =
                    IF s_noinherit \in SetOf(split(ps_style_str)) THEN Unset(f) ELSE None

=============================================================================
